---- MODULE Spec2Model ----
(***************************************************************************)
(* preact-suspense: the Suspense boundary (options.__e hook, Suspense.__c, *)
(* onResolved) and the lazy() wrapper (loadModule, LazyComponent, preload) *)
(* as a state machine.  The host (Preact) appears only as the caller of    *)
(* the hook and of render attempts, and as the promise job queue.          *)
(***************************************************************************)
EXTENDS Integers, Sequences, FiniteSets, TLC

\* ------------------------------------------------------------- bounds
MaxRegs == 2        \* onResolved closures alive at one time
MaxAttach == 2      \* re-render continuations one mounted lazy copy attaches
MaxLoads == 2       \* invocations of load() per wrapper that are followed
MaxEffects == 2     \* runs of the guarded child's effect that are followed

\* ------------------------------------------------------------- constants
MODE_HYDRATE == 32
OtherFlagBit == 4 * MODE_HYDRATE    \* a bit of __u other than MODE_HYDRATE

\* ------------------------------------------------------------- the vnode tree
\* root
\*  |- c                      plain component outside every boundary
\*  `- outerS  (Suspense)
\*      `- fragO  (Fragment)
\*          |- a              plain component
\*          |- x              mounted copy of the lazy wrapper L1
\*          |- z              mounted copy of the lazy wrapper L2
\*          `- div            host element
\*              `- innerS (Suspense)
\*                  `- fragI (Fragment)
\*                      |- b  plain component
\*                      `- y  second mounted copy of the lazy wrapper L1
Boundaries == {"outer", "inner"}
\* the wrappers two calls of lazy() returned
Lazies == {"L1", "L2"}
Throwers == {"a", "b", "c"}
Mounts == {"x", "y", "z"}
VNodes == {"root", "c", "outerS", "fragO", "a", "x", "z", "div", "innerS", "fragI",
           "b", "y"}

\* vnode.__ (_parent)
Parent(v) ==
    CASE v = "c" -> "root"
      [] v = "outerS" -> "root"
      [] v = "fragO" -> "outerS"
      [] v \in {"a", "x", "z", "div"} -> "fragO"
      [] v = "innerS" -> "div"
      [] v = "fragI" -> "innerS"
      [] v \in {"b", "y"} -> "fragI"
      [] OTHER -> "none"

\* vnode.__c (_component): the component instance of the vnode, "none" for
\* a host element
ComponentOf(v) ==
    CASE v = "outerS" -> "outer"
      [] v = "innerS" -> "inner"
      [] v \in {"root", "div"} -> "none"
      [] OTHER -> "plain"

\* component.__c (_childDidSuspend): only Suspense instances define it
HasChildDidSuspend(c) == c \in Boundaries

\* the wrapper a mounted copy renders
WrapperOf(n) == IF n = "z" THEN "L2" ELSE "L1"

\* ------------------------------------------------------------- values
\* promise references: the wrapper's variable while unset, any promise-like
\* value a plain component raises (an object with a then method, a native
\* promise among them), what load() returns, what load().then(...) returns
NoPromise == [src |-> "undefined", lazy |-> "none", k |-> 0]
Thenable == [src |-> "thenable", lazy |-> "none", k |-> 0]
LoadPromise(L, i) == [src |-> "load", lazy |-> L, k |-> i]
ModulePromise(L, i) == [src |-> "then", lazy |-> L, k |-> i]

LoadPromises == {LoadPromise(L, i) : L \in Lazies, i \in 1..MaxLoads}
ModulePromises == {ModulePromise(L, i) : L \in Lazies, i \in 1..MaxLoads}
NativePromises == LoadPromises \cup ModulePromises

\* what load() can resolve to
Undefined == [tag |-> "undefined", id |-> "-", def |-> "-"]
Null == [tag |-> "null", id |-> "-", def |-> "-"]
Comp(c) == [tag |-> "component", id |-> c, def |-> "-"]
Module(d) == [tag |-> "module", id |-> "-", def |-> d]
Components == {"X", "Y"}
Values == {Undefined, Null} \cup {Comp(c) : c \in Components}
             \cup {Module(d) : d \in Components \cup {"-"}}

Truthy(v) == v.tag \notin {"undefined", "null"}
\* m.default
DefaultOf(m) == IF m.tag = "module" /\ m.def /= "-" THEN Comp(m.def) ELSE Undefined
\* (m && m.default) || m
Normalize(m) ==
    LET l == IF Truthy(m) THEN DefaultOf(m) ELSE m
    IN IF Truthy(l) THEN l ELSE m

\* raised values: a promise or thenable (truthy, with a then field), an Error
\* object (truthy, no then field), null
RaisedPromise(p) == [truthy |-> TRUE, then |-> TRUE, p |-> p]
RaisedError == [truthy |-> TRUE, then |-> FALSE, p |-> NoPromise]
RaisedNull == [truthy |-> FALSE, then |-> FALSE, p |-> NoPromise]
RaisedValues == {RaisedPromise(Thenable), RaisedError, RaisedNull}

\* vnode.ref and props.ref: absent, null, a ref object or callback
Refs == {"undefined", "null", "r"}
\* a props object: its other fields as one, and its ref field
PlainProps == [id |-> "p", ref |-> "undefined"]
Props == {PlainProps, [PlainProps EXCEPT !.ref = "r"]}
NoProps == [id |-> "-", ref |-> "undefined"]
NoElement == [type |-> Undefined, props |-> NoProps]
\* createElement(component, props)
createElement(type, props) == [type |-> type, props |-> props]

VARIABLES
    pendingCount,   \* Suspense._pendingCount, per boundary
    suspended,      \* Suspense.state.suspended as the last setState left it
    regs,           \* the live onResolved closures created by Suspense.__c
    pstate,         \* state of each native promise
    presult,        \* what each promise load() returned was fulfilled with
    reactions,      \* continuations attached to each pending promise, in order
    microtasks,     \* the promise job queue
    promise,        \* lazy(): let promise
    component,      \* lazy(): let component
    loadCalls,      \* how often load() was invoked, per wrapper
    ref,            \* LazyComponent: useRef(component), per mounted copy
    attached,       \* LazyComponent: promise.then(() => update(1)) calls, per copy
    state,          \* LazyComponent: useState(0) value, per mounted copy
    handed,         \* the promises a wrapper has returned or raised so far
    effects,        \* the effect of the child the outer boundary guards
    last            \* what the last step did

vars == <<pendingCount, suspended, regs, pstate, presult, reactions, microtasks,
          promise, component, loadCalls, ref, attached, state, handed, effects,
          last>>

boundaryVars == <<pendingCount, suspended, regs>>
lazyVars == <<promise, component, loadCalls, ref, attached, state, handed>>

\* ------------------------------------------------------------- promise jobs
NoJob == [kind |-> "none", reg |-> 0, lazy |-> "none", k |-> 0, node |-> "none",
          outcome |-> "-", val |-> Undefined]
\* promise.then(onResolved, onResolved) of registration i
OnResolvedJob(i) == [NoJob EXCEPT !.kind = "onResolved", !.reg = i]
\* load().then((m) => { component = ...; return component })
LoadedJob(L, i) == [NoJob EXCEPT !.kind = "loaded", !.lazy = L, !.k = i]
\* promise.then(() => update(1)) of mounted copy n
UpdateJob(n) == [NoJob EXCEPT !.kind = "update", !.node = n]

\* which continuation of a reaction runs for an outcome: "-" when the then()
\* call gave none for it (the outcome then only passes through)
HandlerFor(job, outcome) ==
    CASE job.kind = "onResolved" -> "onResolved"
      [] job.kind = "loaded" -> IF outcome = "fulfilled" THEN "loaded" ELSE "pass"
      [] job.kind = "update" -> IF outcome = "fulfilled" THEN "update" ELSE "-"
      [] OTHER -> "-"

RECURSIVE Scheduled(_, _, _)
\* the jobs a settlement puts on the queue, in the order they were attached
Scheduled(rs, outcome, val) ==
    IF rs = <<>> THEN <<>>
    ELSE LET j == Head(rs)
             rest == Scheduled(Tail(rs), outcome, val)
         IN IF HandlerFor(j, outcome) = "-" THEN rest
            ELSE <<[j EXCEPT !.outcome = outcome, !.val = val]>> \o rest

\* p.then(...) for a native promise: queued at once when p is settled
\* already, kept with p otherwise.  q is the (reactions, microtasks) pair.
Then(q, p, job) ==
    IF pstate[p] = "pending"
    THEN [rx |-> [q.rx EXCEPT ![p] = Append(@, job)], mt |-> q.mt]
    ELSE [rx |-> q.rx, mt |-> q.mt \o Scheduled(<<job>>, pstate[p], Undefined)]

\* ------------------------------------------------------------- the boundary
\* variant: the walk does not stop at the first boundary and ends with the
\* outermost one
RECURSIVE FindOutermost(_)
FindOutermost(v) ==
    LET up == Parent(v)
    IN IF up = "none" THEN "none"
       ELSE LET above == FindOutermost(up)
            IN IF above /= "none" THEN above
               ELSE IF ComponentOf(up) /= "none" /\ HasChildDidSuspend(ComponentOf(up))
                    THEN ComponentOf(up)
                    ELSE "none"

\* options.__e, lines 48-59: walk the parent links upward from the signalling
\* node and stop at the first vnode whose component defines __c
RECURSIVE FindBoundary(_)
FindBoundary(v) ==
    LET up == Parent(v)
    IN IF up = "none" THEN "none"
       ELSE IF ComponentOf(up) /= "none" /\ HasChildDidSuspend(ComponentOf(up))
            THEN ComponentOf(up)
            ELSE FindBoundary(up)

\* u & bit, as a truth value
HasBit(u, bit) == (u \div bit) % 2 = 1

\* vnode flags the host can hand to the hook: __u (0 also stands for an
\* absent field) and __h
Flags == {[u |-> 0, h |-> FALSE], [u |-> OtherFlagBit, h |-> FALSE],
          [u |-> MODE_HYDRATE + OtherFlagBit, h |-> FALSE],
          [u |-> 0, h |-> TRUE]}
\* newVNode.__e as the host hands it to the hook: null, or the node's own DOM
\* (its __k is then its own child list); oldVNode carries "old" ones
Doms == {"null", "own"}

\* variant: only the flag bit is looked at, __h is forgotten
isHydratingFlagOnly(u, h) == u /= 0 /\ HasBit(u, MODE_HYDRATE)

\* !!(vnode.__u && (vnode.__u & MODE_HYDRATE)) || !!vnode.__h
isHydrating(u, h) == (u /= 0 /\ HasBit(u, MODE_HYDRATE)) \/ h

\* const oldCatchError = options.__e: the host always installs one
oldCatchError == TRUE

\* a closure slot: the boundary c it captured, its flag resolved, and for the
\* record the promise, the signalling node and whether that node carried the
\* hydration indicator
NoReg == [b |-> "none", p |-> NoPromise, node |-> "none", resolved |-> FALSE,
          hyd |-> FALSE]
FreeSlots == {i \in 1..MaxRegs : regs[i] = NoReg}
NewSlot == CHOOSE i \in FreeSlots : \A j \in FreeSlots : i <= j

\* variant: Suspense.__c without the setState({ suspended: true }) call
childDidSuspendCountOnly(b, p, u, h, n) ==
    [pendingCount |-> [pendingCount EXCEPT ![b] = @ + 1],
     suspended |-> suspended,
     setState |-> "none",
     regs |-> [regs EXCEPT ![NewSlot] =
                 [b |-> b, p |-> p, node |-> n, resolved |-> FALSE,
                  hyd |-> (HasBit(u, MODE_HYDRATE) \/ h)]]]

\* variant: setState({ suspended: !isHydrating }) on every interception
childDidSuspendSetsFlag(b, p, u, h, n) ==
    [pendingCount |-> [pendingCount EXCEPT ![b] = @ + 1],
     suspended |-> [suspended EXCEPT ![b] = ~isHydrating(u, h)],
     setState |-> IF ~isHydrating(u, h) THEN "true" ELSE "false",
     regs |-> [regs EXCEPT ![NewSlot] =
                 [b |-> b, p |-> p, node |-> n, resolved |-> FALSE,
                  hyd |-> (HasBit(u, MODE_HYDRATE) \/ h)]]]

\* variant: the counter counts distinct promises, a promise the boundary
\* already waits for is not counted again
childDidSuspendDistinct(b, p, u, h, n) ==
    [pendingCount |-> IF \E k \in 1..MaxRegs : regs[k].b = b /\ regs[k].p = p
                      THEN pendingCount
                      ELSE [pendingCount EXCEPT ![b] = @ + 1],
     suspended |-> IF ~isHydrating(u, h) THEN [suspended EXCEPT ![b] = TRUE]
                   ELSE suspended,
     setState |-> IF ~isHydrating(u, h) THEN "true" ELSE "none",
     regs |-> [regs EXCEPT ![NewSlot] =
                 [b |-> b, p |-> p, node |-> n, resolved |-> FALSE,
                  hyd |-> (HasBit(u, MODE_HYDRATE) \/ h)]]]

\* Suspense.__c up to the then() call: the counter, the flag, the closure
childDidSuspend(b, p, u, h, n) ==
    [pendingCount |-> [pendingCount EXCEPT ![b] = @ + 1],
     suspended |-> IF ~isHydrating(u, h) THEN [suspended EXCEPT ![b] = TRUE]
                   ELSE suspended,
     setState |-> IF ~isHydrating(u, h) THEN "true" ELSE "none",
     regs |-> [regs EXCEPT ![NewSlot] =
                 [b |-> b, p |-> p, node |-> n, resolved |-> FALSE,
                  hyd |-> (HasBit(u, MODE_HYDRATE) \/ h)]]]

\* variant: without "if (resolved) return"
onResolvedUnguarded(i) ==
    LET b == regs[i].b
        c == pendingCount[b] - 1
    IN [pendingCount |-> [pendingCount EXCEPT ![b] = IF c <= 0 THEN 0 ELSE c],
        suspended |-> IF c <= 0 THEN [suspended EXCEPT ![b] = FALSE] ELSE suspended,
        setState |-> IF c <= 0 THEN "false" ELSE "none",
        regs |-> [regs EXCEPT ![i].resolved = TRUE]]

\* variant: _pendingCount as a static field, one counter for all boundaries
onResolvedStaticCount(i) ==
    LET b == regs[i].b
        c == pendingCount[b] - 1
    IN IF regs[i].resolved
       THEN [pendingCount |-> pendingCount, suspended |-> suspended,
             setState |-> "none", regs |-> regs]
       ELSE [pendingCount |-> [b2 \in Boundaries |->
                                 IF pendingCount[b2] - 1 <= 0 THEN 0
                                 ELSE pendingCount[b2] - 1],
             suspended |-> IF c <= 0 THEN [suspended EXCEPT ![b] = FALSE]
                           ELSE suspended,
             setState |-> IF c <= 0 THEN "false" ELSE "none",
             regs |-> [regs EXCEPT ![i].resolved = TRUE]]

\* variant: "resolved" kept on the boundary instead of in each closure, so
\* that after one settlement the later closures of that boundary return early
onResolvedSharedFlag(i) ==
    LET b == regs[i].b
        c == pendingCount[b] - 1
    IN IF \E k \in 1..MaxRegs : regs[k].b = b /\ regs[k].resolved
       THEN [pendingCount |-> pendingCount, suspended |-> suspended,
             setState |-> "none", regs |-> regs]
       ELSE [pendingCount |-> [pendingCount EXCEPT ![b] = IF c <= 0 THEN 0 ELSE c],
             suspended |-> IF c <= 0 THEN [suspended EXCEPT ![b] = FALSE]
                           ELSE suspended,
             setState |-> IF c <= 0 THEN "false" ELSE "none",
             regs |-> [regs EXCEPT ![i].resolved = TRUE]]

\* variant: without "if (c._pendingCount <= 0)", every settlement resumes
onResolvedEager(i) ==
    LET b == regs[i].b
        c == pendingCount[b] - 1
    IN IF regs[i].resolved
       THEN [pendingCount |-> pendingCount, suspended |-> suspended,
             setState |-> "none", regs |-> regs]
       ELSE [pendingCount |-> [pendingCount EXCEPT ![b] = IF c <= 0 THEN 0 ELSE c],
             suspended |-> [suspended EXCEPT ![b] = FALSE],
             setState |-> "false",
             regs |-> [regs EXCEPT ![i].resolved = TRUE]]

\* variant: the state update is skipped when suspended is already false
onResolvedOnlyIfSuspended(i) ==
    LET b == regs[i].b
        c == pendingCount[b] - 1
    IN IF regs[i].resolved
       THEN [pendingCount |-> pendingCount, suspended |-> suspended,
             setState |-> "none", regs |-> regs]
       ELSE [pendingCount |-> [pendingCount EXCEPT ![b] = IF c <= 0 THEN 0 ELSE c],
             suspended |-> IF c <= 0 THEN [suspended EXCEPT ![b] = FALSE]
                           ELSE suspended,
             setState |-> IF c <= 0 /\ suspended[b] THEN "false" ELSE "none",
             regs |-> [regs EXCEPT ![i].resolved = TRUE]]

\* variant: "if (c._pendingCount < 0)", the last settlement does not resume
onResolvedStrict(i) ==
    LET b == regs[i].b
        c == pendingCount[b] - 1
    IN IF regs[i].resolved
       THEN [pendingCount |-> pendingCount, suspended |-> suspended,
             setState |-> "none", regs |-> regs]
       ELSE [pendingCount |-> [pendingCount EXCEPT ![b] = IF c <= 0 THEN 0 ELSE c],
             suspended |-> IF c < 0 THEN [suspended EXCEPT ![b] = FALSE]
                           ELSE suspended,
             setState |-> IF c < 0 THEN "false" ELSE "none",
             regs |-> [regs EXCEPT ![i].resolved = TRUE]]

\* the closure onResolved of registration i
onResolved(i) ==
    LET b == regs[i].b
        c == pendingCount[b] - 1
    IN IF regs[i].resolved
       THEN [pendingCount |-> pendingCount, suspended |-> suspended,
             setState |-> "none", regs |-> regs]
       ELSE [pendingCount |-> [pendingCount EXCEPT ![b] = IF c <= 0 THEN 0 ELSE c],
             suspended |-> IF c <= 0 THEN [suspended EXCEPT ![b] = FALSE]
                           ELSE suspended,
             setState |-> IF c <= 0 THEN "false" ELSE "none",
             regs |-> [regs EXCEPT ![i].resolved = TRUE]]

\* promise.then(onResolved, onResolved): the continuation for each outcome
onFulfilled(i) == onResolved(i)
\* variant: promise.then(onResolved), a rejection reaches nothing
onRejectedMissing(i) ==
    [pendingCount |-> pendingCount, suspended |-> suspended, setState |-> "none",
     regs |-> regs]
onRejected(i) == onResolved(i)
Continuation(i, outcome) ==
    IF outcome = "fulfilled" THEN onFulfilled(i) ELSE onRejected(i)

\* what Suspense.render returns: null, or createElement(Fragment, null, kids)
NoOutput == [tag |-> "-", kids |-> "-"]
NullOutput == [tag |-> "null", kids |-> "-"]
Fragment(kids) == [tag |-> "Fragment", kids |-> kids]
\* props.fallback and props.children as a parent can pass them
Fallbacks == {"undefined", "null", "fb"}
Childrens == {"undefined", "kids"}

\* variant: render without the "if (suspended)" branch
renderChildrenOnly(susp, fallback, children) == Fragment(children)

\* Suspense.render()
render(susp, fallback, children) ==
    IF susp
    THEN IF fallback \notin {"null", "undefined"} THEN Fragment(fallback)
         ELSE NullOutput
    ELSE Fragment(children)

\* variant: "if (err)" in place of "if (err && err.then)"
IsThenableTruthy(err) == err.truthy

\* err && err.then
IsThenable(err) == err.truthy /\ err.then

\* a vnode as the pre-diff hook sees it.  vnode.type: null (a text node), a
\* host tag, a component without _forwarded, a lazy wrapper
VNodeTypes == {"null", "div", "plain"} \cup Lazies
NoVNode == [type |-> "-", ref |-> "undefined", props |-> NoProps]
\* LazyComponent._forwarded = true; nothing else sets the field
Forwarded(type) == type \in Lazies
\* const oldDiff = options.__b: preact/hooks, imported first, installs one
oldDiff == TRUE

\* variant: the hook without the "vnode.type._forwarded" test
DiffHookAnyType(vnode) ==
    IF vnode.type /= "null" /\ vnode.ref = "r"
    THEN [vnode EXCEPT !.props.ref = vnode.ref, !.ref = "null"]
    ELSE vnode

\* options.__b up to the call of oldDiff: the vnode as it leaves
DiffHook(vnode) ==
    IF vnode.type /= "null" /\ Forwarded(vnode.type) /\ vnode.ref = "r"
    THEN [vnode EXCEPT !.props.ref = vnode.ref, !.ref = "null"]
    ELSE vnode

\* what a step did: the value raised and the node that raised it, the
\* setState call issued and on which boundary, the arguments oldCatchError
\* received, newVNode.__e and __k as the hook left them, what a render
\* attempt or preload() gave
NoLast == [op |-> "init", boundary |-> "none", setState |-> "none", reg |-> 0,
           raised |-> RaisedNull, at |-> "none",
           fallback |-> "-", children |-> "-", output |-> NoOutput,
           forwarded |-> FALSE, err |-> RaisedNull, node |-> "none",
           dom |-> "-", kids |-> "-",
           vin |-> NoVNode, vout |-> NoVNode, passed |-> NoVNode,
           outcome |-> "-", lazy |-> "none", props |-> NoProps,
           element |-> NoElement, returned |-> NoPromise,
           domIn |-> "-", repeat |-> FALSE]

\* variant: the delegation is not returned, the hook goes on to the
\* previously installed one
delegateFallsThrough == FALSE

\* "return v.__c.__c(err, newVNode)": the hook ends with the delegation
delegateReturns == TRUE

\* variant: the DOM reference and child list are copied unconditionally
TakesOverAlways(dom) == TRUE

\* newVNode.__e == null, true of null and of undefined
TakesOver(dom) == dom \in {"null", "undefined"}

\* newVNode.__e with the absent field told apart from null
AllDoms == Doms \cup {"undefined"}

\* options.__e(err, newVNode, oldVNode): q is the (reactions, microtasks)
\* pair the raising render attempt left, base what is known of the step
CatchError(err, n, u, h, dom, q, base) ==
    LET b == IF IsThenable(err) THEN FindBoundary(n) ELSE "none"
        in == [base EXCEPT !.domIn = dom]
    IN IF b /= "none"
       THEN LET e == childDidSuspend(b, err.p, u, h, n)
                q2 == IF err.p \in NativePromises
                      THEN Then(q, err.p, OnResolvedJob(NewSlot)) ELSE q
                d == [in EXCEPT !.boundary = b, !.setState = e.setState,
                                !.reg = NewSlot,
                                !.dom = IF TakesOver(dom) THEN "old" ELSE dom,
                                !.kids = IF TakesOver(dom) THEN "old" ELSE "own"]
            IN /\ FreeSlots /= {}
               /\ pendingCount' = e.pendingCount
               /\ suspended' = e.suspended
               /\ regs' = e.regs
               /\ reactions' = q2.rx
               /\ microtasks' = q2.mt
               /\ last' = IF delegateReturns \/ ~oldCatchError THEN d
                          ELSE [d EXCEPT !.forwarded = TRUE, !.err = err, !.node = n]
       ELSE /\ UNCHANGED boundaryVars
            /\ reactions' = q.rx
            /\ microtasks' = q.mt
            /\ last' = IF oldCatchError
                       THEN [in EXCEPT !.forwarded = TRUE, !.err = err, !.node = n,
                                       !.dom = dom, !.kids = "own"]
                       ELSE [in EXCEPT !.dom = dom, !.kids = "own"]

\* a plain component's render attempt raises err
Throw(n, err, u, h, dom) ==
    /\ CatchError(err, n, u, h, dom, [rx |-> reactions, mt |-> microtasks],
                  [NoLast EXCEPT !.op = "throw", !.raised = err, !.at = n])
    /\ UNCHANGED <<effects, pstate, presult, lazyVars>>

\* the job queue runs the boundary's continuation of a settled promise; a
\* native promise calls it this once, so the closure is gone afterwards
RunOnResolved ==
    /\ microtasks /= <<>>
    /\ Head(microtasks).kind = "onResolved"
    /\ LET i == Head(microtasks).reg
           e == Continuation(i, Head(microtasks).outcome)
       IN /\ pendingCount' = e.pendingCount
          /\ suspended' = e.suspended
          /\ regs' = [e.regs EXCEPT ![i] = NoReg]
          /\ last' = [NoLast EXCEPT !.op = "onResolved", !.boundary = regs[i].b,
                                    !.setState = e.setState, !.reg = i,
                                    !.outcome = Head(microtasks).outcome]
    /\ microtasks' = Tail(microtasks)
    /\ UNCHANGED <<effects, pstate, presult, reactions, lazyVars>>

\* a raised promise-like value calls a continuation it was given: whenever
\* it likes, either of the two, and as often as it likes (a native promise
\* calls one of them, once)
ThenableCalls(i, outcome) ==
    /\ regs[i].p = Thenable
    /\ LET e == Continuation(i, outcome)
       IN /\ pendingCount' = e.pendingCount
          /\ suspended' = e.suspended
          /\ regs' = e.regs
          /\ last' = [NoLast EXCEPT !.op = "thenableCall", !.boundary = regs[i].b,
                                    !.setState = e.setState, !.reg = i,
                                    !.outcome = outcome,
                                    !.repeat = regs[i].resolved]
    /\ UNCHANGED <<effects, pstate, presult, reactions, microtasks, lazyVars>>

\* the host renders boundary b with the props its parent passed
SuspenseRender(b, fallback, children) ==
    /\ last' = [NoLast EXCEPT !.op = "suspenseRender", !.boundary = b,
                              !.fallback = fallback, !.children = children,
                              !.output = render(suspended[b], fallback, children)]
    /\ UNCHANGED <<effects, boundaryVars, pstate, presult, reactions, microtasks, lazyVars>>

\* the host is about to diff a vnode and calls options.__b with it
Diff(type, vref, props) ==
    LET vnode == [type |-> type, ref |-> vref, props |-> props]
    IN /\ last' = [NoLast EXCEPT !.op = "diff", !.vin = vnode,
                                 !.vout = DiffHook(vnode),
                                 !.passed = IF oldDiff THEN DiffHook(vnode)
                                            ELSE NoVNode]
       /\ UNCHANGED <<effects, boundaryVars, pstate, presult, reactions, microtasks,
                      lazyVars>>

\* the child "a" of the outer boundary, mounted or about to be, re-renders
\* on a non-hydration pass and raises a promise-like value
ChildSuspends(dom) ==
    /\ effects.active \/ ~suspended["outer"]
    /\ Throw("a", RaisedPromise(Thenable), 0, FALSE, dom)

\* the host re-renders the outer boundary after a setState and reconciles
\* its output: children that are no longer in the output are unmounted and
\* their effect cleanups run, children that are new in it are mounted and
\* their effects run
Commit(fallback) ==
    LET out == render(suspended["outer"], fallback, "kids")
        shows == out = Fragment("kids")
    IN /\ effects' = IF shows /\ ~effects.active
                       THEN [effects EXCEPT !.active = TRUE, !.runs = @ + 1]
                       ELSE IF ~shows /\ effects.active
                       THEN [effects EXCEPT !.active = FALSE, !.cleanups = @ + 1]
                       ELSE effects
       /\ effects'.runs <= MaxEffects
       /\ last' = [NoLast EXCEPT !.op = "commit", !.boundary = "outer",
                                 !.fallback = fallback, !.children = "kids",
                                 !.output = out]
       /\ UNCHANGED <<boundaryVars, pstate, presult, reactions, microtasks, lazyVars>>

\* a promise-like value that has called a continuation lets go of it
ThenableReleases(i) ==
    /\ regs[i].p = Thenable
    /\ regs[i].resolved
    /\ regs' = [regs EXCEPT ![i] = NoReg]
    /\ last' = [NoLast EXCEPT !.op = "release"]
    /\ UNCHANGED <<effects, pendingCount, suspended, pstate, presult, reactions, microtasks,
                   lazyVars>>

\* ------------------------------------------------------------- lazy()
Uninit == [tag |-> "uninit", id |-> "-", def |-> "-"]

\* loadModule(): calls load() once more, attaches the caching continuation to
\* what it returns and yields the promise of that continuation
loadModule(L, q) ==
    LET i == loadCalls[L] + 1
    IN [promise |-> ModulePromise(L, i),
        loadCalls |-> [loadCalls EXCEPT ![L] = i],
        q |-> [rx |-> [q.rx EXCEPT ![LoadPromise(L, i)] = <<LoadedJob(L, i)>>],
               mt |-> q.mt]]

\* variant: a rejected promise is replaced by a new load
EnsureLoadingRetry(L, q) ==
    IF promise[L] = NoPromise \/ pstate[promise[L]] = "rejected"
    THEN loadModule(L, q)
    ELSE [promise |-> promise[L], loadCalls |-> loadCalls, q |-> q]

\* if (!promise) promise = loadModule();
EnsureLoading(L, q) ==
    IF promise[L] = NoPromise
    THEN loadModule(L, q)
    ELSE [promise |-> promise[L], loadCalls |-> loadCalls, q |-> q]

\* variant: preload without "if (!promise)"
preloadAlways(L, q) == loadModule(L, q)

\* LazyComponent.preload
preload(L, q) == EnsureLoading(L, q)

\* variant: "throw promise" without the promise.then(() => update(1)) before it
LazyComponentNoAttach(n, props, q) ==
    LET L == WrapperOf(n)
        ref0 == IF ref[n] = Uninit THEN component[L] ELSE ref[n]
        ld == EnsureLoading(L, q)
    IN IF component[L] /= Undefined
       THEN [promise |-> ld.promise, loadCalls |-> ld.loadCalls, q |-> ld.q,
             ref |-> ref0, attached |-> attached[n], throws |-> FALSE,
             element |-> createElement(component[L], props)]
       ELSE [promise |-> ld.promise, loadCalls |-> ld.loadCalls, q |-> ld.q,
             ref |-> Undefined, attached |-> attached[n], throws |-> TRUE,
             element |-> NoElement]

\* variant: "if (component)" in place of "if (component !== undefined)"
LazyComponentTruthy(n, props, q) ==
    LET L == WrapperOf(n)
        ref0 == IF ref[n] = Uninit THEN component[L] ELSE ref[n]
        ld == EnsureLoading(L, q)
    IN IF Truthy(component[L])
       THEN [promise |-> ld.promise, loadCalls |-> ld.loadCalls, q |-> ld.q,
             ref |-> ref0, attached |-> attached[n], throws |-> FALSE,
             element |-> createElement(component[L], props)]
       ELSE [promise |-> ld.promise, loadCalls |-> ld.loadCalls,
             q |-> Then(ld.q, ld.promise, UpdateJob(n)),
             ref |-> Undefined, attached |-> attached[n] + 1, throws |-> TRUE,
             element |-> NoElement]

\* LazyComponent(props) of the mounted copy n: what it leaves behind, and
\* the element it returns or the promise it raises
LazyComponent(n, props, q) ==
    LET L == WrapperOf(n)
        ref0 == IF ref[n] = Uninit THEN component[L] ELSE ref[n]
        ld == EnsureLoading(L, q)
    IN IF component[L] /= Undefined
       THEN [promise |-> ld.promise, loadCalls |-> ld.loadCalls, q |-> ld.q,
             ref |-> ref0, attached |-> attached[n], throws |-> FALSE,
             element |-> createElement(component[L], props)]
       ELSE IF ~Truthy(ref0)
       THEN [promise |-> ld.promise, loadCalls |-> ld.loadCalls,
             q |-> Then(ld.q, ld.promise, UpdateJob(n)),
             ref |-> Undefined, attached |-> attached[n] + 1, throws |-> TRUE,
             element |-> NoElement]
       ELSE [promise |-> ld.promise, loadCalls |-> ld.loadCalls, q |-> ld.q,
             ref |-> ref0, attached |-> attached[n], throws |-> TRUE,
             element |-> NoElement]

\* somebody calls Lazy.preload()
Preload(L) ==
    LET r == preload(L, [rx |-> reactions, mt |-> microtasks])
    IN /\ r.loadCalls[L] <= MaxLoads
       /\ promise' = [promise EXCEPT ![L] = r.promise]
       /\ loadCalls' = r.loadCalls
       /\ reactions' = r.q.rx
       /\ microtasks' = r.q.mt
       /\ handed' = [handed EXCEPT ![L] = @ \cup {r.promise}]
       /\ last' = [NoLast EXCEPT !.op = "preload", !.lazy = L,
                                 !.returned = r.promise]
       /\ UNCHANGED <<effects, boundaryVars, pstate, presult, component, ref, attached, state>>

\* the host makes a render attempt of the mounted copy n
Render(n, props, u, h, dom) ==
    LET L == WrapperOf(n)
        r == LazyComponent(n, props, [rx |-> reactions, mt |-> microtasks])
        base == [NoLast EXCEPT !.op = "render", !.lazy = L, !.props = props,
                               !.element = r.element]
    IN /\ r.loadCalls[L] <= MaxLoads
       /\ r.attached <= MaxAttach
       /\ promise' = [promise EXCEPT ![L] = r.promise]
       /\ loadCalls' = r.loadCalls
       /\ ref' = [ref EXCEPT ![n] = r.ref]
       /\ attached' = [attached EXCEPT ![n] = r.attached]
       /\ IF r.throws
          THEN /\ CatchError(RaisedPromise(r.promise), n, u, h, dom, r.q,
                             [base EXCEPT !.returned = r.promise, !.at = n,
                                          !.raised = RaisedPromise(r.promise)])
               /\ handed' = [handed EXCEPT ![L] = @ \cup {r.promise}]
          ELSE /\ handed' = handed
               /\ reactions' = r.q.rx
               /\ microtasks' = r.q.mt
               /\ last' = base
               /\ UNCHANGED boundaryVars
       /\ UNCHANGED <<effects, pstate, presult, component, state>>

\* the promise load() returned settles
SettleLoad(L, i, outcome, val) ==
    /\ i <= loadCalls[L]
    /\ pstate[LoadPromise(L, i)] = "pending"
    /\ (outcome = "rejected" => val = Undefined)
    /\ pstate' = [pstate EXCEPT ![LoadPromise(L, i)] = outcome]
    /\ presult' = [presult EXCEPT ![LoadPromise(L, i)] = val]
    /\ microtasks' = microtasks \o Scheduled(reactions[LoadPromise(L, i)], outcome, val)
    /\ reactions' = [reactions EXCEPT ![LoadPromise(L, i)] = <<>>]
    /\ last' = [NoLast EXCEPT !.op = "settleLoad", !.lazy = L, !.outcome = outcome]
    /\ UNCHANGED <<effects, boundaryVars, lazyVars>>

\* variant: let component hoisted out of lazy(), one variable for all wrappers
loadedShared(L, m) == [K \in Lazies |-> Normalize(m)]

\* variant: the continuation returns the content without storing it
loadedNotCached(L, m) == component

\* variant: component = m.default
loadedDefaultOnly(L, m) == [component EXCEPT ![L] = DefaultOf(m)]

\* (m) => { component = (m && m.default) || m; return component }
loaded(L, m) == [component EXCEPT ![L] = Normalize(m)]

\* the job queue runs loadModule's continuation (or passes a rejection on),
\* which settles the wrapper's promise
RunLoaded ==
    /\ microtasks /= <<>>
    /\ Head(microtasks).kind = "loaded"
    /\ LET j == Head(microtasks)
           mp == ModulePromise(j.lazy, j.k)
       IN /\ component' = IF j.outcome = "fulfilled" THEN loaded(j.lazy, j.val)
                           ELSE component
          /\ pstate' = [pstate EXCEPT ![mp] = j.outcome]
          /\ microtasks' = Tail(microtasks) \o Scheduled(reactions[mp], j.outcome, Undefined)
          /\ reactions' = [reactions EXCEPT ![mp] = <<>>]
          /\ last' = [NoLast EXCEPT !.op = "loaded", !.lazy = j.lazy,
                                    !.outcome = j.outcome]
    /\ UNCHANGED <<effects, boundaryVars, presult, promise, loadCalls, ref, attached, state,
                   handed>>

\* the job queue runs () => update(1) of a mounted copy
RunUpdate ==
    /\ microtasks /= <<>>
    /\ Head(microtasks).kind = "update"
    /\ state' = [state EXCEPT ![Head(microtasks).node] = 1]
    /\ microtasks' = Tail(microtasks)
    /\ last' = [NoLast EXCEPT !.op = "update"]
    /\ UNCHANGED <<effects, boundaryVars, pstate, presult, reactions, promise, component,
                   loadCalls, ref, attached, handed>>

\* ------------------------------------------------------------- the system
\* variant: a boundary constructed showing its fallback
ConstructorSuspended ==
    [suspended |-> TRUE, pendingCount |-> 0]

\* the fields a boundary has when its constructor returns
Constructor ==
    [suspended |-> FALSE, pendingCount |-> 0]

Init ==
    /\ pendingCount = [b \in Boundaries |-> Constructor.pendingCount]
    /\ suspended = [b \in Boundaries |-> Constructor.suspended]
    /\ regs = [i \in 1..MaxRegs |-> NoReg]
    /\ pstate = [p \in NativePromises |-> "pending"]
    /\ presult = [p \in LoadPromises |-> Undefined]
    /\ reactions = [p \in NativePromises |-> <<>>]
    /\ microtasks = <<>>
    /\ promise = [L \in Lazies |-> NoPromise]
    /\ component = [L \in Lazies |-> Undefined]
    /\ loadCalls = [L \in Lazies |-> 0]
    /\ ref = [n \in Mounts |-> Uninit]
    /\ attached = [n \in Mounts |-> 0]
    /\ state = [n \in Mounts |-> 0]
    /\ handed = [L \in Lazies |-> {}]
    /\ effects = [active |-> FALSE, runs |-> 0, cleanups |-> 0]
    /\ last = NoLast

Outcomes == {"fulfilled", "rejected"}

\* the boundary under plain components that raise what they like
Next ==
    \/ \E n \in Throwers, err \in RaisedValues, f \in Flags, dom \in Doms :
          Throw(n, err, f.u, f.h, dom)
    \/ \E i \in 1..MaxRegs, o \in Outcomes : ThenableCalls(i, o)
    \/ \E i \in 1..MaxRegs : ThenableReleases(i)
    \/ \E b \in Boundaries, fallback \in Fallbacks, children \in Childrens :
          SuspenseRender(b, fallback, children)

Spec == Init /\ [][Next]_vars

\* the same throwers on normal passes, with every form of newVNode.__e
DomNext ==
    \/ \E n \in Throwers, err \in RaisedValues, dom \in AllDoms :
          Throw(n, err, 0, FALSE, dom)
    \/ \E i \in 1..MaxRegs, o \in Outcomes : ThenableCalls(i, o)
    \/ \E i \in 1..MaxRegs : ThenableReleases(i)

DomSpec == Init /\ [][DomNext]_vars

\* the first call a raised promise-like value makes to a continuation of
\* registration i: its settlement
Settlement(i) == \E o \in Outcomes : ThenableCalls(i, o) /\ ~regs[i].resolved

\* the same system when every raised value settles at some time
LiveSpec == Spec /\ \A i \in 1..MaxRegs : WF_vars(Settlement(i))

\* the outer boundary guarding one child that has an effect
EffectNext ==
    \/ \E dom \in Doms : ChildSuspends(dom)
    \/ \E i \in 1..MaxRegs, o \in Outcomes : ThenableCalls(i, o)
    \/ \E i \in 1..MaxRegs : ThenableReleases(i)
    \/ \E fallback \in Fallbacks : Commit(fallback)

EffectSpec == Init /\ [][EffectNext]_vars

\* one lazy wrapper, its two mounted copies under the boundaries
LazyNext ==
    \/ Preload("L1")
    \/ \E n \in {"x", "y"}, props \in Props, f \in Flags, dom \in Doms :
          Render(n, props, f.u, f.h, dom)
    \/ \E i \in 1..MaxLoads, o \in Outcomes, val \in Values :
          SettleLoad("L1", i, o, val)
    \/ RunLoaded
    \/ RunUpdate
    \/ RunOnResolved

LazySpec == Init /\ [][LazyNext]_vars

\* two lazy wrappers side by side, one mounted copy of each under the outer
\* boundary, on non-hydration passes
PairValues == {Comp("X"), Module("Y"), Undefined}
PairNext ==
    \/ \E L \in Lazies : Preload(L)
    \/ \E n \in {"x", "z"} : Render(n, PlainProps, 0, FALSE, "own")
    \/ \E L \in Lazies, i \in 1..MaxLoads, o \in Outcomes, val \in PairValues :
          SettleLoad(L, i, o, val)
    \/ RunLoaded
    \/ RunUpdate
    \/ RunOnResolved

PairSpec == Init /\ [][PairNext]_vars

\* vnodes of every type going through the pre-diff hook, and one mounted
\* copy of a lazy wrapper rendered with the props the hook left
RefNext ==
    \/ \E type \in VNodeTypes, vref \in Refs, props \in Props :
          Diff(type, vref, props)
    \/ \E props \in Props : Render("x", props, 0, FALSE, "own")
    \/ Preload("L1")
    \/ \E i \in 1..MaxLoads, o \in Outcomes, val \in {Comp("X"), Module("Y")} :
          SettleLoad("L1", i, o, val)
    \/ RunLoaded
    \/ RunUpdate
    \/ RunOnResolved

RefSpec == Init /\ [][RefNext]_vars

\* ------------------------------------------------------------- vocabulary of the properties
\* the registrations of boundary b whose signal has not settled
Outstanding(b) == {i \in 1..MaxRegs : regs[i].b = b /\ ~regs[i].resolved}
Registered(b) == {i \in 1..MaxRegs : regs[i].b = b}
Settled(b) == {i \in 1..MaxRegs : regs[i].b = b /\ regs[i].resolved}
\* this step is the interception that creates registration i
Intercepts(i) == regs[i] = NoReg /\ regs'[i] /= NoReg
\* this step is the settlement of registration i
Settles(i) ==
    /\ regs[i] /= NoReg
    /\ ~regs[i].resolved
    /\ regs'[i] = NoReg \/ regs'[i].resolved
\* this step called a continuation of registration i
Calls(i) == last'.op \in {"thenableCall", "onResolved"} /\ last'.reg = i
\* the nearest enclosing boundary of each node that can signal, read off the tree
NearestBoundary(n) ==
    CASE n \in {"a", "x", "z"} -> "outer"
      [] n \in {"b", "y"} -> "inner"
      [] OTHER -> "none"

\* ------------------------------------------------------------- properties
\* C1: signals intercepted by one boundary on a non-hydration pass set
\* suspended at the interception, suspended stays true while any of them is
\* unsettled, and the boundary resumes (setState({suspended: false})) exactly
\* in the step in which its last outstanding registration settles, in
\* whatever order they settle.
C1_SuspendedUntilAllSettled ==
    [][\A b \in Boundaries :
          /\ \A i \in 1..MaxRegs :
                (Intercepts(i) /\ regs'[i].b = b /\ ~regs'[i].hyd) => suspended'[b]
          /\ (\E i \in Outstanding(b)' : ~regs'[i].hyd) => suspended'[b]
          /\ (last'.setState = "false" /\ last'.boundary = b)
                <=> (Outstanding(b) /= {} /\ Outstanding(b)' = {})]_vars

\* two signals of the outer boundary were outstanding together, one has just
\* settled and the boundary is still suspended
C1_Witness ==
    \E i, j \in 1..MaxRegs :
        /\ regs[i].b = "outer" /\ regs[j].b = "outer"
        /\ ~regs[i].hyd /\ ~regs[j].hyd
        /\ regs[i].resolved /\ ~regs[j].resolved
        /\ last.op = "thenableCall" /\ last.reg = i /\ last.setState = "none"
        /\ suspended["outer"]

\* C2: the counter is never negative, equals the registrations made minus
\* those settled, and setState({suspended: false}) is issued only by a step
\* that leaves the counter at 0.
C2_CounterIsOutstanding ==
    \A b \in Boundaries :
        /\ pendingCount[b] >= 0
        /\ pendingCount[b] = Cardinality(Registered(b)) - Cardinality(Settled(b))
        /\ (last.setState = "false" /\ last.boundary = b) => pendingCount[b] = 0

\* a boundary with two registrations, one outstanding and one just settled
C2_Witness ==
    \E b \in Boundaries :
        /\ pendingCount[b] = 1
        /\ Cardinality(Registered(b)) = 2
        /\ Cardinality(Settled(b)) = 1
        /\ last.op = "thenableCall"

\* C3 as stated: a hydration interception leaves suspended false, and
\* suspended is false after that signal has settled.
C3_HydrationNeverSuspended ==
    [][\A i \in 1..MaxRegs :
          /\ (Intercepts(i) /\ regs'[i].hyd /\ ~suspended[regs'[i].b])
                => ~suspended'[regs'[i].b]
          /\ (Settles(i) /\ regs[i].hyd) => ~suspended'[regs[i].b]]_vars

\* C3 (amended): a hydration interception issues no state update and leaves
\* suspended as it was; after such a signal settles suspended is false,
\* unless a non-hydration signal has suspended the boundary meanwhile and
\* the counter is still above 0.
C3_HydrationLeavesSuspendedAlone ==
    [][\A i \in 1..MaxRegs :
          /\ (Intercepts(i) /\ regs'[i].hyd)
                => /\ suspended'[regs'[i].b] = suspended[regs'[i].b]
                   /\ last'.setState = "none"
          /\ (Settles(i) /\ regs[i].hyd)
                => suspended'[regs[i].b]
                     = (suspended[regs[i].b] /\ pendingCount'[regs[i].b] > 0)]_vars

\* a hydration signal has just settled, and its boundary is not suspended
C3_Witness ==
    \E i \in 1..MaxRegs :
        /\ regs[i].hyd /\ regs[i].resolved
        /\ last.op = "thenableCall" /\ last.reg = i /\ last.setState = "false"
        /\ ~suspended[regs[i].b]

\* C4: an interception registers with the nearest enclosing boundary of the
\* signalling node, and neither it nor the later settlement changes the
\* counter or the flag of any other boundary.
C4_NearestBoundaryOnly ==
    [][\A i \in 1..MaxRegs :
          /\ Intercepts(i) =>
                /\ regs'[i].b = NearestBoundary(regs'[i].node)
                /\ \A o \in Boundaries \ {NearestBoundary(regs'[i].node)} :
                      /\ pendingCount'[o] = pendingCount[o]
                      /\ suspended'[o] = suspended[o]
          /\ Settles(i) =>
                \A o \in Boundaries \ {NearestBoundary(regs[i].node)} :
                      /\ pendingCount'[o] = pendingCount[o]
                      /\ suspended'[o] = suspended[o]]_vars

\* a signal from node b, below both boundaries, has suspended and resumed
\* the inner boundary; the outer one has counter 0 and is not suspended
C4_Witness ==
    \E i \in 1..MaxRegs :
        /\ regs[i].node = "b" /\ regs[i].b = "inner" /\ ~regs[i].hyd
        /\ regs[i].resolved
        /\ last.reg = i /\ last.setState = "false" /\ last.boundary = "inner"
        /\ pendingCount["outer"] = 0 /\ ~suspended["outer"]

\* C5: a continuation called for a rejection does to the boundary exactly
\* what one called for a fulfilment does: the counter goes down by one, and
\* when it reaches 0 suspended is cleared and the state update is issued.
C5_RejectionLikeFulfilment ==
    [][\A i \in 1..MaxRegs, o \in Outcomes :
          (Calls(i) /\ last'.outcome = o /\ regs[i] /= NoReg /\ ~regs[i].resolved)
            => LET b == regs[i].b
               IN /\ pendingCount'[b] = pendingCount[b] - 1
                  /\ suspended'[b] = (suspended[b] /\ pendingCount[b] > 1)
                  /\ last'.setState = IF pendingCount[b] = 1 THEN "false" ELSE "none"]_vars

\* a rejection has just resumed a boundary that a non-hydration signal had
\* suspended
C5_Witness ==
    /\ last.op = "thenableCall" /\ last.outcome = "rejected"
    /\ last.setState = "false"
    /\ regs[last.reg].resolved /\ ~regs[last.reg].hyd
    /\ ~suspended[last.boundary]

\* the load of wrapper L has resolved: its promise is fulfilled
Resolved(L) == promise[L] /= NoPromise /\ pstate[promise[L]] = "fulfilled"
\* the value load() resolved to
LoadedValue(L) == presult[LoadPromise(L, promise[L].k)]
\* the content that value stands for: X for {default: X}, the value itself
\* when it has no default field
ContentOf(m) == IF m.def /= "-" THEN Comp(m.def) ELSE m
\* this step is a render attempt of L that returned content c with the props
\* it received, raised nothing and left every boundary alone
RendersContent(c) ==
    /\ last'.element = [type |-> c, props |-> last'.props]
    /\ last'.props \in Props
    /\ last'.returned = NoPromise
    /\ last'.boundary = "none"
    /\ UNCHANGED boundaryVars

\* C6: load() is invoked at most once per wrapper, only by preload() or a
\* render attempt, and has been invoked once after any of them.
C6_LoaderInvokedOnce ==
    [][\A L \in Lazies :
          /\ loadCalls'[L] <= 1
          /\ loadCalls'[L] /= loadCalls[L]
                => (last'.lazy = L /\ last'.op \in {"preload", "render"})
          /\ (last'.lazy = L /\ last'.op \in {"preload", "render"})
                => loadCalls'[L] = 1]_vars

\* both mounted copies have made render attempts, preload() was called
\* after them, and load() has run once
C6_Witness ==
    /\ last.op = "preload"
    /\ attached["x"] >= 1 /\ attached["y"] >= 1
    /\ loadCalls["L1"] = 1

\* C7: all the promises a wrapper has ever returned from preload() or raised
\* from a render attempt are one reference; a render attempt made while no
\* content is cached raises it.
C7_SinglePromiseReference ==
    \A L \in Lazies :
        /\ Cardinality(handed[L]) <= 1
        /\ (last.lazy = L /\ last.op = "preload") => handed[L] = {last.returned}
        /\ (last.lazy = L /\ last.op = "render" /\ ~Resolved(L))
              => (last.returned /= NoPromise /\ handed[L] = {last.returned})

\* a render attempt has raised the promise, and preload() called after it
\* returned the same reference
C7_Witness ==
    /\ last.op = "preload"
    /\ attached["x"] = 1 /\ attached["y"] = 0
    /\ handed["L1"] = {ModulePromise("L1", 1)}
    /\ ref["x"] = Undefined
    /\ pstate[ModulePromise("L1", 1)] = "pending"

\* C8 as stated: once the load has resolved, whatever the value, a render
\* attempt returns the content with the props and raises nothing.
C8_ResolvedRendersAnyValue ==
    [][\A L \in Lazies :
          (last'.op = "render" /\ last'.lazy = L /\ Resolved(L))
            => RendersContent(ContentOf(LoadedValue(L)))]_vars

\* C8 (amended): once the load has resolved to a value other than undefined,
\* a render attempt returns the content with the props it received, raises
\* nothing and changes no boundary.
C8_ResolvedRendersDefinedValue ==
    [][\A L \in Lazies :
          (last'.op = "render" /\ last'.lazy = L /\ Resolved(L)
             /\ LoadedValue(L) /= Undefined)
            => RendersContent(ContentOf(LoadedValue(L)))]_vars

\* preload() completed with {default: X} before any render attempt; the first
\* render attempt returns X and no boundary was ever involved
C8_Witness ==
    /\ last.op = "render"
    /\ last.element = [type |-> Comp("X"), props |-> PlainProps]
    /\ presult[LoadPromise("L1", 1)] = Module("X")
    /\ attached["x"] = 0 /\ attached["y"] = 0
    /\ \A b \in Boundaries : ~suspended[b] /\ pendingCount[b] = 0

\* C9: after the load resolved to {default: X} the cached content is X, after
\* it resolved to a value without default field the cached content is that
\* value, and a render attempt returns an element of that content.
C9_ResolutionNormalized ==
    \A L \in Lazies :
        Resolved(L) =>
          LET m == LoadedValue(L)
          IN /\ (m.def /= "-") => component[L] = Comp(m.def)
             /\ (m.def = "-") => component[L] = m
             /\ (last.op = "render" /\ last.lazy = L /\ m /= Undefined)
                   => last.element.type = (IF m.def /= "-" THEN Comp(m.def) ELSE m)

\* the load resolved directly to the component Y, and a render attempt has
\* returned Y
C9_Witness ==
    /\ Resolved("L1")
    /\ LoadedValue("L1") = Comp("Y")
    /\ last.op = "render"
    /\ last.element.type = Comp("Y")

\* C10: from the moment content is cached, no step changes it and no step
\* invokes load() again.
C10_CachedContentPermanent ==
    [][\A L \in Lazies :
          component[L] /= Undefined
            => (component'[L] = component[L] /\ loadCalls'[L] = loadCalls[L])]_vars

\* content is cached and preload() has been called after that
C10_Witness ==
    /\ component["L1"] = Comp("X")
    /\ last.op = "preload"
    /\ loadCalls["L1"] = 1

\* C11: a step of one wrapper (its preload(), a render attempt of a copy of
\* it, the settlement of its load, its caching continuation), and any step
\* of no wrapper, leaves every other wrapper's promise reference, cached
\* content and loader-invocation count as they were.
C11_WrappersIndependent ==
    [][\A L \in Lazies :
          last'.lazy /= L
            => /\ promise'[L] = promise[L]
               /\ component'[L] = component[L]
               /\ loadCalls'[L] = loadCalls[L]]_vars

\* L1 has cached X; L2, loaded separately, is still in flight and a copy of
\* it has just raised its own promise
C11_Witness ==
    /\ component["L1"] = Comp("X")
    /\ component["L2"] = Undefined
    /\ promise["L1"] = ModulePromise("L1", 1)
    /\ promise["L2"] = ModulePromise("L2", 1)
    /\ pstate[promise["L2"]] = "pending"
    /\ loadCalls = [L \in Lazies |-> 1]
    /\ last.op = "render" /\ last.lazy = "L2" /\ last.returned = promise["L2"]

\* C12: when the raised value has no truthy then field (null and undefined
\* among them), the hook changes no boundary's counter, flag or closures,
\* leaves newVNode as it received it, and calls the previously installed
\* hook with the value and the node it was called with.
C12_NonThenableForwarded ==
    [][(last'.op = "throw" /\ ~(last'.raised.truthy /\ last'.raised.then))
          => /\ UNCHANGED boundaryVars
             /\ last'.boundary = "none" /\ last'.setState = "none"
             /\ last'.forwarded
             /\ last'.err = last'.raised
             /\ last'.node = last'.at
             /\ last'.dom \in Doms /\ last'.kids = "own"]_vars

\* an Error object raised under the inner boundary, while that boundary has
\* a signal outstanding, went to the previous hook
C12_Witness ==
    /\ last.op = "throw" /\ last.at = "b" /\ last.raised = RaisedError
    /\ last.forwarded /\ last.err = RaisedError
    /\ pendingCount["inner"] = 1 /\ suspended["inner"]

\* C13: the output of a boundary's render is the fallback when suspended is
\* true and a fallback was given, nothing when suspended is true and the
\* fallback is null or omitted, and the children when suspended is false:
\* with no children that is an empty fragment, never the fallback.
C13_RenderOutput ==
    last.op = "suspenseRender" =>
      LET b == last.boundary
      IN /\ (suspended[b] /\ last.fallback = "fb") => last.output = Fragment("fb")
         /\ (suspended[b] /\ last.fallback \in {"null", "undefined"})
               => last.output = NullOutput
         /\ ~suspended[b]
               => /\ last.output = Fragment(last.children)
                  /\ last.output.kids /= "fb"

\* a boundary that is not suspended was rendered with a fallback and no
\* children, and gave an empty fragment
C13_Witness ==
    /\ last.op = "suspenseRender"
    /\ ~suspended[last.boundary]
    /\ last.fallback = "fb" /\ last.children = "undefined"
    /\ last.output = Fragment("undefined")

\* C14: while a signal intercepted on a non-hydration pass has not settled,
\* its boundary is suspended in every state, and every render of the
\* boundary gives the fallback (nothing when there is none), never the
\* children.
C14_UnsettledKeepsFallback ==
    \A b \in Boundaries :
        (\E i \in Outstanding(b) : ~regs[i].hyd)
          => /\ suspended[b]
             /\ (last.op = "suspenseRender" /\ last.boundary = b)
                   => /\ last.output.kids /= "kids"
                      /\ last.fallback = "fb" => last.output = Fragment("fb")

\* a signal settled on the outer boundary while another one, raised on a
\* non-hydration pass, stays unsettled; the boundary was rendered after that
\* and gave the fallback
C14_Witness ==
    /\ pendingCount["outer"] = 1
    /\ \E i, j \in 1..MaxRegs :
          /\ regs[i].b = "outer" /\ regs[i].resolved
          /\ regs[j].b = "outer" /\ ~regs[j].resolved /\ ~regs[j].hyd
    /\ last.op = "suspenseRender" /\ last.boundary = "outer"
    /\ last.children = "kids" /\ last.output = Fragment("fb")

\* C15: a boundary with no signal outstanding, resumed or never suspended,
\* has counter 0 and suspended false; a non-hydration interception in that
\* state suspends it with counter 1; and every settlement, however many
\* suspensions came before, takes one off the counter at the first call of
\* its continuation and resumes the boundary exactly when the counter
\* reaches 0.
C15_Resuspension ==
    [][\A b \in Boundaries :
          /\ Outstanding(b)' = {} => (pendingCount'[b] = 0 /\ ~suspended'[b])
          /\ \A j \in 1..MaxRegs :
                /\ (Intercepts(j) /\ regs'[j].b = b /\ ~regs'[j].hyd
                       /\ Outstanding(b) = {})
                      => /\ suspended'[b] /\ pendingCount'[b] = 1
                         /\ last'.setState = "true" /\ last'.boundary = b
                /\ (Calls(j) /\ ~regs[j].resolved /\ regs[j].b = b)
                      => /\ pendingCount'[b] = pendingCount[b] - 1
                         /\ suspended'[b] = (suspended[b] /\ pendingCount'[b] > 0)
                         /\ (last'.setState = "false") = (pendingCount'[b] = 0)]_vars

\* the outer boundary was suspended by one signal and resumed when it
\* settled; a later signal has just suspended it again
C15_Witness ==
    \E i, j \in 1..MaxRegs :
        /\ i /= j
        /\ regs[i].b = "outer" /\ regs[i].resolved /\ ~regs[i].hyd
        /\ regs[j].b = "outer" /\ ~regs[j].resolved
        /\ \A k \in 1..MaxRegs : k \notin {i, j} => regs[k] = NoReg
        /\ last.op = "throw" /\ last.reg = j /\ last.setState = "true"
        /\ pendingCount["outer"] = 1 /\ suspended["outer"]

C17_EffectsFollowSuspension ==
    [][/\ (last'.op = "commit" /\ Outstanding("outer") /= {} /\ effects.active)
             => /\ ~effects'.active
                /\ effects'.cleanups = effects.cleanups + 1
                /\ effects'.runs = effects.runs
                /\ last'.output.kids /= "kids"
       /\ effects'.runs /= effects.runs
             => /\ Outstanding("outer") = {} /\ ~suspended["outer"]
                /\ last'.op = "commit"
                /\ effects'.runs = effects.runs + 1
       /\ effects'.cleanups /= effects.cleanups
             => /\ Outstanding("outer") /= {} /\ effects.active
                /\ last'.op = "commit"
       /\ (last'.op = "commit" /\ Outstanding("outer") = {} /\ ~effects.active)
             => /\ effects'.active
                /\ effects'.runs = effects.runs + 1
                /\ effects'.cleanups = effects.cleanups
                /\ last'.output = Fragment("kids")
       /\ effects'.runs = effects'.cleanups + (IF effects'.active THEN 1 ELSE 0)]_vars

\* the child's effect ran, the child raised a signal and was unmounted with
\* one cleanup, the signal settled, and the commit after it has mounted the
\* child again: two runs, one cleanup
C17_Witness ==
    /\ effects = [active |-> TRUE, runs |-> 2, cleanups |-> 1]
    /\ last.op = "commit" /\ last.output = Fragment("kids")
    /\ \E i \in 1..MaxRegs : regs[i].node = "a" /\ regs[i].resolved
    /\ pendingCount["outer"] = 0 /\ ~suspended["outer"]

\* the sequence of jobs holds a re-render continuation of the mounted copy n
HasUpdate(jobs, n) ==
    \E k \in 1..Len(jobs) : jobs[k].kind = "update" /\ jobs[k].node = n

\* C18 as stated: when the wrapper's promise settles, fulfilled or rejected,
\* the re-render continuation of every mounted copy that made a render
\* attempt before is put on the job queue.
C18_RerenderOnAnySettlement ==
    [][\A n \in Mounts :
          (last'.op = "loaded" /\ last'.lazy = WrapperOf(n)
             /\ HasUpdate(reactions[promise[WrapperOf(n)]], n))
            => HasUpdate(microtasks', n)]_vars

\* C18 (amended): a render attempt made while the load is pending attaches
\* the copy's re-render continuation to the in-flight promise and raises
\* that promise; when the promise is fulfilled the continuation is put on
\* the job queue, and when it is rejected no re-render of the copy is
\* scheduled.
C18_RerenderOnSuccess ==
    [][\A n \in Mounts :
          LET L == WrapperOf(n)
          IN /\ (last'.op = "render" /\ last'.at = n
                    /\ pstate[promise'[L]] = "pending")
                   => /\ HasUpdate(reactions'[promise'[L]], n)
                      /\ attached'[n] = attached[n] + 1
                      /\ last'.returned = promise'[L]
                      /\ last'.raised = RaisedPromise(promise'[L])
             /\ (last'.op = "loaded" /\ last'.lazy = L
                    /\ HasUpdate(reactions[promise[L]], n))
                   => (HasUpdate(microtasks', n) <=> last'.outcome = "fulfilled")
             /\ (last'.op = "update" /\ Head(microtasks).node = n)
                   => /\ state'[n] = 1
                      /\ pstate[promise[L]] = "fulfilled"]_vars

\* the load succeeded after the copy x had made a render attempt, and the
\* re-render continuation of x is on the job queue
C18_Witness ==
    /\ last.op = "loaded" /\ last.outcome = "fulfilled"
    /\ attached["x"] = 1
    /\ HasUpdate(microtasks, "x")
    /\ component["L1"] = Comp("X")

\* C19: the counter or the suspended flag of a boundary changes only in a
\* step that registers a signal with that boundary or that calls a
\* continuation that boundary attached; preload(), a render attempt that
\* returns content, the settlement of a load, the caching continuation and
\* the re-render continuation change no boundary.
C19_BoundaryStateOwned ==
    [][/\ \A b \in Boundaries :
             (pendingCount'[b] /= pendingCount[b] \/ suspended'[b] /= suspended[b])
               => \/ \E i \in 1..MaxRegs :
                        Intercepts(i) /\ regs'[i].b = b /\ last'.boundary = b
                  \/ \E i \in 1..MaxRegs : Calls(i) /\ regs[i].b = b
       /\ (\/ last'.op \in {"preload", "settleLoad", "loaded", "update"}
           \/ last'.op = "render" /\ last'.returned = NoPromise)
             => UNCHANGED boundaryVars]_vars

\* both boundaries had a signal of the lazy wrapper outstanding; the inner
\* one has just resumed and the outer one still counts its own
C19_Witness ==
    /\ last.op = "onResolved" /\ last.boundary = "inner" /\ last.setState = "false"
    /\ pendingCount["inner"] = 0 /\ ~suspended["inner"]
    /\ pendingCount["outer"] = 1 /\ suspended["outer"]

\* C20: the pre-diff hook moves the ref of a node whose type is a lazy
\* wrapper into the node's props and sets the node's ref to null; a node of
\* any other type, and a lazy node without a ref, leaves the hook as it
\* came; the previously installed hook is called with every node; and a
\* render attempt of the wrapper with the props the hook left, once content
\* is cached, returns an element of the content that carries the ref.
C20_RefRedirected ==
    [][/\ last'.op = "diff"
             => LET v == last'.vin
                    w == last'.vout
                IN /\ (v.type \in Lazies /\ v.ref = "r")
                         => /\ w.props.ref = v.ref /\ w.ref = "null"
                            /\ w.type = v.type /\ w.props.id = v.props.id
                   /\ ~(v.type \in Lazies /\ v.ref = "r") => w = v
                   /\ last'.passed = w
       /\ (last.op = "diff" /\ last.vin.type = "L1" /\ last.vin.ref = "r"
             /\ last'.op = "render" /\ last'.props = last.vout.props
             /\ component["L1"] /= Undefined)
             => /\ last'.element.type = component["L1"]
                /\ last'.element.props.ref = last.vin.ref]_vars

\* a node of the lazy wrapper carrying a ref went through the hook after
\* the content X had been cached: the ref is in its props and no longer on
\* the node
C20_Witness ==
    /\ last.op = "diff"
    /\ last.vin = [type |-> "L1", ref |-> "r", props |-> PlainProps]
    /\ last.vout = [type |-> "L1", ref |-> "null",
                    props |-> [PlainProps EXCEPT !.ref = "r"]]
    /\ last.passed = last.vout
    /\ component["L1"] = Comp("X")

\* C21: right after construction a boundary has suspended = false and a
\* pending counter of 0, and a boundary that holds no registration (none was
\* ever made, or all were settled and released) is in that same state and
\* renders its children.
C21_FreshBoundaryShowsChildren ==
    /\ last.op = "init"
          => \A b \in Boundaries : ~suspended[b] /\ pendingCount[b] = 0
    /\ \A b \in Boundaries :
          Registered(b) = {}
             => /\ suspended[b] = Constructor.suspended
                /\ pendingCount[b] = Constructor.pendingCount
                /\ ~suspended[b] /\ pendingCount[b] = 0
                /\ (last.op = "suspenseRender" /\ last.boundary = b)
                      => last.output = Fragment(last.children)

C21_Witness ==
    /\ last.op = "suspenseRender"
    /\ \A i \in 1..MaxRegs : regs[i] = NoReg
    /\ last.fallback = "fb"
    /\ last.children = "kids"
    /\ last.output = Fragment("kids")

\* C22: a settlement (the first call of a registration's continuation) that
\* brings the boundary's counter to 0 issues the state update
\* {suspended: false} on that boundary, also when the flag was already false
\* because every outstanding signal was registered on a hydration pass; a
\* settlement that leaves the counter above 0 issues no state update and
\* leaves the flag alone.
C22_ResumeExactlyAtZero ==
    [][\A j \in 1..MaxRegs :
          (Calls(j) /\ regs[j] /= NoReg /\ ~regs[j].resolved)
             => LET b == regs[j].b
                IN /\ last'.boundary = b
                   /\ pendingCount'[b] = 0
                         => /\ last'.setState = "false"
                            /\ ~suspended'[b]
                   /\ pendingCount'[b] > 0
                         => /\ last'.setState = "none"
                            /\ suspended'[b] = suspended[b]
                   /\ (\A k \in Outstanding(b) : regs[k].hyd) /\ ~suspended[b]
                         => (last'.setState = "false") = (Outstanding(b) = {j})]_vars

\* the only signal of a boundary, registered on a hydration pass, has settled:
\* the state update was issued
C22_Witness ==
    /\ last.op = "thenableCall"
    /\ last.setState = "false"
    /\ regs[last.reg].hyd
    /\ regs[last.reg].resolved
    /\ Registered(last.boundary) = {last.reg}
    /\ pendingCount[last.boundary] = 0

\* C23: an interception on a hydration pass raises the boundary's counter by
\* one, changes no boundary's suspended flag whatever its value (an already
\* suspended boundary stays suspended, a boundary showing children stays so)
\* and issues no state update.
C23_HydrationRegistrationFrame ==
    [][\A i \in 1..MaxRegs :
          (Intercepts(i) /\ regs'[i].hyd)
             => LET b == regs'[i].b
                IN /\ last'.boundary = b
                   /\ pendingCount' = [pendingCount EXCEPT ![b] = @ + 1]
                   /\ suspended' = suspended
                   /\ last'.setState = "none"]_vars

\* a hydration-pass signal was just registered with a boundary that an earlier
\* signal of a normal pass, still unsettled, had suspended
C23_Witness ==
    /\ last.op = "throw"
    /\ last.reg \in 1..MaxRegs
    /\ regs[last.reg].hyd
    /\ suspended[last.boundary]
    /\ pendingCount[last.boundary] = 2
    /\ \E k \in Outstanding(last.boundary) : k /= last.reg /\ ~regs[k].hyd

\* C24: in every reachable state, a suspended boundary has a pending counter
\* above 0, and a boundary with an unsettled signal that was registered on a
\* normal (non-hydration) pass is suspended.
C24_SuspendedBetweenBounds ==
    \A b \in Boundaries :
       /\ suspended[b] => pendingCount[b] > 0
       /\ (\E i \in Outstanding(b) : ~regs[i].hyd) => suspended[b]

\* hydration and normal interceptions interleaved with a settlement: a
\* normal-pass signal is outstanding next to a settled hydration-pass one
C24_Witness ==
    \E b \in Boundaries :
       /\ suspended[b]
       /\ pendingCount[b] = 1
       /\ \E i \in Outstanding(b) : ~regs[i].hyd
       /\ \E k \in Settled(b) : regs[k].hyd

\* C25: a registration lowers the counter at most once: the first call of
\* either continuation lowers it by one (not below 0); every later call, of
\* the same or of the other continuation, leaves counters, flags and closures
\* as they are and issues no state update.
C25_OneDecrementPerRegistration ==
    [][\A j \in 1..MaxRegs :
          (Calls(j) /\ regs[j] /= NoReg)
             => LET b == regs[j].b
                IN IF regs[j].resolved
                   THEN /\ pendingCount' = pendingCount
                        /\ suspended' = suspended
                        /\ regs' = regs
                        /\ last'.setState = "none"
                        /\ last'.repeat
                   ELSE /\ pendingCount' = [pendingCount EXCEPT ![b] = @ - 1]
                        /\ pendingCount[b] >= 1
                        /\ ~last'.repeat]_vars

\* the failure continuation of a registration was called after its first
\* call, while another signal of the same boundary is still outstanding
C25_Witness ==
    /\ last.op = "thenableCall"
    /\ last.repeat
    /\ last.outcome = "rejected"
    /\ regs[last.reg].resolved
    /\ suspended[last.boundary]
    /\ pendingCount[last.boundary] = 1
    /\ Outstanding(last.boundary) /= {}

\* C26: the counter counts interceptions: k interceptions of one promise by
\* one boundary hold k closures and count k.  While the promise is pending
\* each of them has its continuation attached to it; once the promise has
\* settled each of them has its continuation on the job queue, so when the
\* queue has run them the counter is lowered by k and none of them keeps the
\* boundary suspended.
C26_CountsInterceptions ==
    \A b \in Boundaries :
       /\ pendingCount[b] = Cardinality(Registered(b))
       /\ \A i \in Registered(b) :
             LET p == regs[i].p
             IN /\ p \in NativePromises
                /\ ~regs[i].resolved
                /\ IF pstate[p] = "pending"
                   THEN \E k \in 1..Len(reactions[p]) :
                           reactions[p][k] = OnResolvedJob(i)
                   ELSE \E k \in 1..Len(microtasks) :
                           /\ microtasks[k].kind = "onResolved"
                           /\ microtasks[k].reg = i
                           /\ microtasks[k].outcome = pstate[p]

\* one copy raised the same promise on two render attempts, the promise has
\* settled, the first of the two continuations has run and the second is next
C26_Witness ==
    /\ last.op = "onResolved"
    /\ last.boundary = "outer"
    /\ last.setState = "none"
    /\ pendingCount["outer"] = 1
    /\ suspended["outer"]
    /\ \E i \in Registered("outer") :
          /\ regs[i].node = "x"
          /\ regs[i].p = promise["L1"]
          /\ pstate[regs[i].p] /= "pending"
          /\ attached["x"] = 2
          /\ microtasks /= <<>>
          /\ Head(microtasks).kind = "onResolved"
          /\ Head(microtasks).reg = i

\* C27: an intercepted pending signal is handled by exactly one party: when
\* the signalling node has a boundary among its ancestors the nearest one
\* registers it and the previously installed hook is not invoked; when it has
\* none, no boundary's state changes and the previously installed hook
\* receives the signal and the node, as it does for a genuine error.
C27_ExactlyOneHandler ==
    [][(last'.op = "throw" /\ IsThenable(last'.raised))
          => IF NearestBoundary(last'.at) /= "none"
             THEN /\ last'.boundary = NearestBoundary(last'.at)
                  /\ ~last'.forwarded
                  /\ \E i \in 1..MaxRegs :
                        /\ Intercepts(i)
                        /\ regs'[i].b = last'.boundary
                        /\ \A k \in 1..MaxRegs : k /= i => regs'[k] = regs[k]
             ELSE /\ UNCHANGED boundaryVars
                  /\ last'.boundary = "none"
                  /\ last'.forwarded
                  /\ last'.err = last'.raised
                  /\ last'.node = last'.at]_vars

\* a component outside every boundary raised a promise-like value while a
\* boundary elsewhere in the tree is suspended: it went to the previous hook
C27_Witness ==
    /\ last.op = "throw"
    /\ last.at = "c"
    /\ IsThenable(last.raised)
    /\ last.forwarded
    /\ last.boundary = "none"
    /\ suspended["outer"]

\* C30: when the hook delegates a pending signal to a boundary, the
\* signalling node gets the previously committed node's DOM reference and
\* child list if, and only if, it has no DOM reference of its own (null or
\* absent); a node with a DOM reference keeps it and its child list; when the
\* raised value is no pending signal or no boundary is found, the node is
\* left as it was.
C30_DomTakeover ==
    [][(last'.op = "throw")
          => IF IsThenable(last'.raised) /\ NearestBoundary(last'.at) /= "none"
             THEN /\ last'.boundary /= "none"
                  /\ IF last'.domIn = "own"
                     THEN last'.dom = "own" /\ last'.kids = "own"
                     ELSE last'.dom = "old" /\ last'.kids = "old"
             ELSE /\ last'.boundary = "none"
                  /\ last'.dom = last'.domIn
                  /\ last'.kids = "own"]_vars

\* a node that had its own DOM reference raised a pending signal under a
\* boundary and kept its DOM reference and child list
C30_Witness ==
    /\ last.op = "throw"
    /\ last.boundary = "inner"
    /\ last.domIn = "own"
    /\ last.dom = "own"
    /\ last.kids = "own"
    /\ last.reg \in 1..MaxRegs
    /\ regs[last.reg].node = "b"

\* C28: when a continuation attached to the wrapper's in-flight promise runs
\* after a successful load with a defined value (the boundary's onResolved
\* or the wrapper's own () => update(1)), the content is cached already, and
\* a render attempt of the wrapper made next returns content and raises
\* nothing.
C28_CachedBeforeContinuations ==
    [][\A L \in Lazies :
          LET job == Head(microtasks)
              now == [rx |-> reactions, mt |-> microtasks]
          IN (/\ last'.op \in {"onResolved", "update"}
              /\ microtasks /= <<>>
              /\ job.outcome = "fulfilled"
              /\ promise[L] /= NoPromise
              /\ IF last'.op = "update" THEN WrapperOf(job.node) = L
                 ELSE regs[job.reg].p = promise[L]
              /\ LoadedValue(L) /= Undefined)
             => /\ component[L] = ContentOf(LoadedValue(L))
                /\ component[L] /= Undefined
                /\ component'[L] = component[L]
                /\ \A n \in Mounts :
                      WrapperOf(n) = L
                         => /\ ~LazyComponent(n, PlainProps, now)'.throws
                            /\ LazyComponent(n, PlainProps, now)'.element
                                  = createElement(component[L], PlainProps)]_vars

\* the boundary's continuation has just run after the load gave a module
\* with a default export, and the boundary shows its children again
C28_Witness ==
    /\ last.op = "onResolved"
    /\ last.outcome = "fulfilled"
    /\ last.setState = "false"
    /\ Resolved("L1")
    /\ LoadedValue("L1") = Module("Y")
    /\ component["L1"] = Comp("Y")
    /\ ~suspended[last.boundary]

\* C29: once the wrapper's promise is rejected, no step caches content,
\* invokes the loader again or replaces the promise; preload() returns that
\* same promise, and every render attempt raises that same promise, which the
\* nearest boundary registers again (counter up by one, a new closure whose
\* continuation is queued at once with the rejection).
C29_FailedLoadStays ==
    [][\A L \in Lazies :
          (promise[L] /= NoPromise /\ pstate[promise[L]] = "rejected")
             => /\ component[L] = Undefined
                /\ component'[L] = Undefined
                /\ loadCalls'[L] = loadCalls[L]
                /\ promise'[L] = promise[L]
                /\ pstate'[promise[L]] = "rejected"
                /\ (last'.op = "preload" /\ last'.lazy = L)
                      => last'.returned = promise[L]
                /\ (last'.op = "render" /\ last'.lazy = L)
                      => /\ last'.element = NoElement
                         /\ last'.returned = promise[L]
                         /\ last'.raised = RaisedPromise(promise[L])
                         /\ \E i \in 1..MaxRegs :
                               LET b == NearestBoundary(last'.at)
                               IN /\ Intercepts(i)
                                  /\ regs'[i].p = promise[L]
                                  /\ regs'[i].b = b
                                  /\ pendingCount'[b] = pendingCount[b] + 1
                                  /\ \E k \in 1..Len(microtasks') :
                                        /\ microtasks'[k].kind = "onResolved"
                                        /\ microtasks'[k].reg = i
                                        /\ microtasks'[k].outcome = "rejected"]_vars

\* a copy that had raised the promise before renders again after the load
\* failed: the rejected promise is raised and registered again
C29_Witness ==
    /\ last.op = "render"
    /\ last.at = "x"
    /\ attached["x"] = 2
    /\ pstate[promise["L1"]] = "rejected"
    /\ last.returned = promise["L1"]
    /\ loadCalls["L1"] = 1
    /\ component["L1"] = Undefined
    /\ last.reg \in 1..MaxRegs
    /\ regs[last.reg].p = promise["L1"]
    /\ regs[last.reg].b = "outer"
    /\ Cardinality(Registered("outer")) = 1

\* C31 as stated: a mounted copy of a lazy wrapper attaches its re-render
\* continuation to the in-flight promise at most once while the load is
\* pending, so the promise holds at most one such continuation per copy and
\* its settlement puts at most one re-render of the copy on the job queue.
C31_AttachesAtMostOnce ==
    \A n \in Mounts :
       LET p == promise[WrapperOf(n)]
       IN /\ p /= NoPromise
             => Cardinality({k \in 1..Len(reactions[p]) :
                               reactions[p][k] = UpdateJob(n)}) <= 1
          /\ Cardinality({k \in 1..Len(microtasks) :
                            /\ microtasks[k].kind = "update"
                            /\ microtasks[k].node = n}) <= 1

====
